---- MODULE Spec2Model ----
(***************************************************************************)
(* HEX-LoadBench: the load-generation and execution-orchestration engine.  *)
(*                                                                         *)
(*   runner/test_executor.py               TestExecutionManager (registry) *)
(*                                         TestExecutor (coordinator)      *)
(*   runner/python-runner/load_runner.py   LoadRunner (internal generator) *)
(*                                                                         *)
(* Scheduling.  start_test, execute_test, run_test and the virtual users   *)
(* are coroutines of one asyncio event loop: the code between two awaits   *)
(* is one atomic step.  _run_k6_test holds no await: from Popen to the     *)
(* return of communicate() the loop thread is blocked and no coroutine     *)
(* runs.  abort_test is a plain (synchronous) method: it is called from a  *)
(* callback of the loop when the loop is free, or from another thread      *)
(* while the loop thread is blocked in communicate().  asyncio.Cancelled-  *)
(* Error derives from BaseException (Python >= 3.8), so no                 *)
(* `except Exception` of the code catches it.                              *)
(*                                                                         *)
(* Two specifications share the registry and coordinator actions:          *)
(*   Spec        many executions; the internal run is one await that       *)
(*               returns, raises or is cancelled                           *)
(*   SpecRunner  one internal execution with its LoadRunner expanded       *)
(*               (virtual users, rate limiter, metrics, clock)             *)
(***************************************************************************)
EXTENDS Naturals, Integers, Sequences, FiniteSets, TLC

\* ------------------------------------------------------------------ bounds

\* start_test calls that get past admission in one behaviour of Spec
MaxStarts == 6

\* TestExecutionManager.__init__: self.max_concurrent_tests = 5
max_concurrent_tests == 5

\* execute_test: concurrent_users below this run on the internal generator
PythonThreshold == 1000

Ids == 1..MaxStarts

\* SpecRunner: virtual users of the expanded run, its duration in ticks, and
\* the clock's reading when the manager is constructed
NumUsers == 2
Duration == 2
StartClock == 3

\* SpecK6: executions of the external backend in one behaviour
K6Runs == 3

\* SpecPure: the longest latency sequence reported on, and the largest latency
MaxLen == 4
MaxLatency == 3

VARIABLES
  active_tests,   \* TestExecutionManager.active_tests: the ids it tracks
  nextId,         \* executors created so far + 1 (uuid4: every id is fresh)
  is_running,     \* TestExecutor.is_running, per executor
  process,        \* TestExecutor.process: "None", or the Popen's state
  signals,        \* signals sent to the executor's process, in order
  task,           \* where the start_test coroutine of the execution stands
  ret             \* the last call made on the manager and what it returned

regVars == <<active_tests, nextId, is_running, process, signals, task, ret>>

VARIABLES
  rid,                \* the execution whose LoadRunner is expanded (0: none)
  rcfg,               \* LoadRunner.config, the LoadTestConfig of that run
  running,            \* LoadRunner.running
  metrics,            \* LoadRunner.metrics, the TestMetrics accumulator
  last_request_time,  \* LoadRunner.last_request_time
  vu,                 \* the run_user_simulation tasks
  now,                \* time.time(), in ticks
  report              \* what generate_report returned ("none": not called)

runVars == <<rid, rcfg, running, metrics, last_request_time, vu, now, report>>

VARIABLES
  files,   \* summary.json and results.json of the working directory
  extra    \* the last external result's keys beyond success / runner / error

k6Vars == <<files, extra>>

VARIABLES
  sample,         \* a TestMetrics.response_times handed to generate_report
  stats,          \* the "response_times" section generate_report built from it
  passed,         \* a test_config as its caller built it
  test_config,    \* the same dictionary, as the caller holds it now
  python_config   \* the LoadTestConfig _run_python_test built from it

pureVars == <<sample, stats, passed, test_config, python_config>>

vars == <<regVars, runVars, k6Vars, pureVars>>

\* ----------------------------------------------------------------- results

Result(ok, runner, text) == [success |-> ok, runner |-> runner, error |-> text]

CapacityRejected == Result(FALSE, "", "Maximum concurrent tests (5) reached")
NotFound         == Result(FALSE, "", "Test execution not found")
NoTestRunning    == Result(FALSE, "", "No test is currently running")
NoProcess        == Result(FALSE, "", "No process to abort")
AbortFailed      == Result(FALSE, "", "Failed to abort test")
AbortedOk        == Result(TRUE, "", "Test aborted successfully")
AbortedForced    == Result(TRUE, "", "Test forcefully terminated")
ExecuteFailed    == Result(FALSE, "", "execute_test: exception")
ScriptNotFound   == Result(FALSE, "", "k6 script not found for profile")
K6LaunchFailed   == Result(FALSE, "", "k6 execution failed")
K6Failed         == Result(FALSE, "", "k6 failed with return code")
K6TimedOut       == Result(FALSE, "", "Test execution timed out")
K6Success        == Result(TRUE, "k6", "")
PythonSuccess    == Result(TRUE, "python", "")
Cancelled        == Result(FALSE, "", "CancelledError")
NoCall           == Result(FALSE, "", "")

\* a call and its return: found is what the call's `execution_id in
\* self.active_tests` test saw, proc and sigs are the executor's process and
\* the signals sent to it as the call left them
Call(op, id, val, found, proc, sigs) ==
  [op |-> op, id |-> id, val |-> val, found |-> found, proc |-> proc, sigs |-> sigs]

\* ------------------------------------------------------------ configuration

\* test_config as start_test receives it: the keys the coordinator reads
Configs ==
  [runner_type : {"python", "auto"},
   concurrent_users : {10, 900, PythonThreshold},
   load_profile_type : {"steady_state", "unknown"},
   has_url : BOOLEAN]

\* what the host answers when the external backend is launched
Hosts == [script_exists : BOOLEAN, popen_ok : BOOLEAN]

\* the hosts that matter to a configuration: only the external backend asks
HostsFor(c) ==
  IF c.runner_type = "python" \/ c.concurrent_users < PythonThreshold
  THEN {[script_exists |-> TRUE, popen_ok |-> TRUE]}
  ELSE Hosts

\* what the process and the OS answer to terminate(): it raises; the process
\* exits within the 10 s wait, with code 0 or not; or it outlives the wait
AbortOutcomes == {"raises", "exits_zero", "exits_nonzero", "ignores_term"}

\* ----------------------------------------------------- TestExecutor helpers

\* execute_test, line 38
UsePython(c) == c.runner_type = "python" \/ c.concurrent_users < PythonThreshold

\* mutant: a profile kind without a mapping falls back to the basic script
ScriptPathFallback(profile) ==
  IF profile \in {"ramp_up", "steady_state", "spike", "soak"} THEN profile ELSE "steady_state"

\* _get_k6_script_path: script_mapping.get(profile_type)
ScriptPath(profile) ==
  IF profile \in {"ramp_up", "steady_state", "spike", "soak"} THEN profile ELSE "None"

\* what execute_test does before its first await, or to its return when it has none:
\* [val: the result returned ("" while suspended), task, proc]
ExecuteStartNoUrl == [task |-> "returned", val |-> ExecuteFailed, proc |-> "None"]

ExecuteStart(c, h) ==
  IF UsePython(c)
  THEN IF c.has_url
       THEN [task |-> "py_await", val |-> NoCall, proc |-> "None"]
       ELSE ExecuteStartNoUrl                        \* KeyError: test_config["target_url"]
  ELSE IF ScriptPath(c.load_profile_type) = "None" \/ ~h.script_exists
       THEN [task |-> "returned", val |-> ScriptNotFound, proc |-> "None"]  \* ValueError
       ELSE IF ~c.has_url
       THEN ExecuteStartNoUrl                        \* KeyError in _prepare_k6_env
       ELSE IF ~h.popen_ok
       THEN [task |-> "returned", val |-> K6LaunchFailed, proc |-> "None"]
       ELSE [task |-> "k6_wait", val |-> NoCall, proc |-> "alive"]

\* mutant: abort_test without its is_running guard
ExecutorAbortUnguarded(run, proc, sigs, o) ==
  IF proc # "None"
  THEN IF proc # "alive" \/ o \in {"exits_zero", "exits_nonzero"}
       THEN [val |-> AbortedOk, proc |-> "exit_nonzero", sigs |-> Append(sigs, "TERM")]
       ELSE IF o = "raises"
       THEN [val |-> AbortFailed, proc |-> proc, sigs |-> sigs]
       ELSE [val |-> AbortedForced, proc |-> "exit_nonzero",
             sigs |-> Append(Append(sigs, "TERM"), "KILL")]
  ELSE [val |-> NoProcess, proc |-> proc, sigs |-> sigs]

\* mutant: a live process is killed at once, without terminate() and the wait
ExecutorAbortKillsFirst(run, proc, sigs, o) ==
  IF ~run
  THEN [val |-> NoTestRunning, proc |-> proc, sigs |-> sigs]
  ELSE IF proc # "None"
  THEN IF proc # "alive"
       THEN [val |-> AbortedOk, proc |-> proc, sigs |-> sigs]
       ELSE IF o = "raises"
       THEN [val |-> AbortFailed, proc |-> proc, sigs |-> sigs]
       ELSE [val |-> AbortedForced, proc |-> "exit_nonzero", sigs |-> Append(sigs, "KILL")]
  ELSE [val |-> NoProcess, proc |-> proc, sigs |-> sigs]

\* TestExecutor.abort_test on an executor whose fields are run, proc, sigs
ExecutorAbort(run, proc, sigs, o) ==
  IF ~run
  THEN [val |-> NoTestRunning, proc |-> proc, sigs |-> sigs]
  ELSE IF proc # "None"
  THEN IF proc # "alive"
       THEN [val |-> AbortedOk, proc |-> proc, sigs |-> sigs]   \* terminate() of an exited Popen sends nothing
       ELSE IF o = "raises"
       THEN [val |-> AbortFailed, proc |-> proc, sigs |-> sigs]
       ELSE IF o \in {"exits_zero", "exits_nonzero"}
       THEN [val |-> AbortedOk,
             proc |-> IF o = "exits_zero" THEN "exit_zero" ELSE "exit_nonzero",
             sigs |-> Append(sigs, "TERM")]
       ELSE [val |-> AbortedForced, proc |-> "exit_nonzero",
             sigs |-> Append(Append(sigs, "TERM"), "KILL")]
  ELSE [val |-> NoProcess, proc |-> proc, sigs |-> sigs]

\* ------------------------------------------------ TestExecutionManager helpers

\* mutant: the admission check off by one (`>` for `>=`)
AdmitOffByOne(n) == ~(n > max_concurrent_tests)

\* start_test, line 274: the admission check, on len(self.active_tests)
Admit(n) == ~(n >= max_concurrent_tests)

\* mutant: the cleanup drops some entry when its own is already gone
CleanupPopsAny(tests, id) ==
  IF id \in tests THEN tests \ {id}
  ELSE IF tests = {} THEN tests ELSE tests \ {CHOOSE x \in tests : TRUE}

\* `if execution_id in self.active_tests: del self.active_tests[execution_id]`
Cleanup(tests, id) == IF id \in tests THEN tests \ {id} ELSE tests

\* mutant: the lookup consults every executor ever created
TrackedEver(id) == id < nextId

\* abort_test, line 307: `execution_id in self.active_tests`
Tracked(id) == id \in active_tests

\* mutant: the handle is removed only when the executor's abort succeeded
AbortRemoveOnSuccess(tests, id, val) == IF val.success THEN Cleanup(tests, id) ELSE tests

\* abort_test, lines 313-315: the handle is removed whatever `result` is
AbortRemove(tests, id, val) == Cleanup(tests, id)

\* start_test's exit when the coroutine is cancelled: CancelledError is not an
\* Exception, so neither cleanup of lines 288-297 runs
CancelCleanup(tests, id) == tests

\* get_active_tests
get_active_tests ==
  [id \in active_tests |-> IF is_running[id] THEN "running" ELSE "completed"]

\* the loop thread is not blocked in communicate()
LoopFree == \A i \in Ids : task[i] # "k6_wait"

\* an executor nothing refers to any more: its fields are dropped
Drop(f, id, d) == [f EXCEPT ![id] = d]

\* the ids a caller may pass to abort_test: those handed out, and one that never was
AbortIds == 1..nextId

\* the outcomes that matter to an abort: only a live process answers terminate()
AbortOutcomesFor(id) ==
  IF id \in Ids /\ is_running[id] /\ process[id] = "alive"
  THEN AbortOutcomes
  ELSE {"exits_nonzero"}

\* ------------------------------------------------- registry and coordinator

\* start_test(test_config), to its first await or, when it has none, to its return
StartTestCore(c, h) ==
  /\ LoopFree
  /\ IF ~Admit(Cardinality(active_tests))
     THEN /\ ret' = Call("start_test", 0, CapacityRejected, FALSE, "None", <<>>)
          /\ UNCHANGED <<active_tests, nextId, is_running, process, signals, task>>
     ELSE /\ nextId <= MaxStarts
          /\ LET id == nextId
                 x  == ExecuteStart(c, h)
                 registered == active_tests \cup {id}      \* line 282
             IN /\ nextId' = nextId + 1
                /\ process' = [process EXCEPT ![id] = x.proc]
                /\ UNCHANGED signals
                /\ IF x.task = "returned"
                   THEN /\ task' = [task EXCEPT ![id] = "done"]
                        /\ active_tests' = Cleanup(registered, id)
                        /\ ret' = Call("start_test", id, x.val, id \in registered,
                                       x.proc, <<>>)
                        /\ UNCHANGED is_running
                   ELSE /\ task' = [task EXCEPT ![id] = x.task]
                        /\ active_tests' = registered
                        /\ is_running' = [is_running EXCEPT ![id] = TRUE]
                        /\ ret' = ret

\* run_test returned: _run_python_test builds the result, execute_test and
\* start_test return it
PyReturnCore(id) ==
  /\ LoopFree
  /\ task[id] = "py_await"
  /\ task' = [task EXCEPT ![id] = "done"]
  /\ is_running' = [is_running EXCEPT ![id] = FALSE]
  /\ active_tests' = Cleanup(active_tests, id)
  /\ ret' = Call("start_test", id, PythonSuccess, id \in active_tests, "None", <<>>)
  /\ UNCHANGED <<nextId, process, signals>>

\* the start_test task is cancelled while it awaits the internal run: the
\* CancelledError leaves execute_test through its finally and then start_test
CancelCore(id) ==
  /\ LoopFree
  /\ task[id] = "py_await"
  /\ is_running' = [is_running EXCEPT ![id] = FALSE]
  /\ active_tests' = CancelCleanup(active_tests, id)
  /\ task' = [task EXCEPT ![id] = IF id \in active_tests' THEN "cancelled" ELSE "done"]
  /\ ret' = Call("start_test", id, Cancelled, id \in active_tests, "None", <<>>)
  /\ UNCHANGED <<nextId, process, signals>>

\* the external process exits by itself, with exit code 0 or not
ProcExit(id, rc0) ==
  /\ task[id] = "k6_wait"
  /\ process[id] = "alive"
  /\ process' = [process EXCEPT ![id] = IF rc0 THEN "exit_zero" ELSE "exit_nonzero"]
  /\ UNCHANGED <<active_tests, nextId, is_running, signals, task, ret>>

\* _run_k6_test, lines 93-113, after communicate() returned
K6Result(proc) == IF proc = "exit_zero" THEN K6Success ELSE K6Failed

\* communicate() returns: the rest of _run_k6_test, execute_test and start_test
K6Return(id) ==
  /\ task[id] = "k6_wait"
  /\ process[id] \in {"exit_zero", "exit_nonzero"}
  /\ task' = [task EXCEPT ![id] = "done"]
  /\ is_running' = [is_running EXCEPT ![id] = FALSE]
  /\ active_tests' = Cleanup(active_tests, id)
  /\ ret' = Call("start_test", id, K6Result(process[id]), id \in active_tests,
                 process[id], signals[id])
  /\ process' = Drop(process, id, "None")
  /\ signals' = Drop(signals, id, <<>>)
  /\ UNCHANGED nextId

\* mutant: the timeout is reported without killing and waiting for the process
TimeoutExpiredNoKill(sigs) == [val |-> K6TimedOut, proc |-> "alive", sigs |-> sigs]

\* lines 115-122: self.process.kill(), self.process.wait(), the result
TimeoutExpired(sigs) ==
  [val |-> K6TimedOut, proc |-> "exit_nonzero", sigs |-> Append(sigs, "KILL")]

\* communicate() raises TimeoutExpired: lines 115-122
K6Timeout(id) ==
  /\ task[id] = "k6_wait"
  /\ process[id] = "alive"
  /\ task' = [task EXCEPT ![id] = "done"]
  /\ is_running' = [is_running EXCEPT ![id] = FALSE]
  /\ active_tests' = Cleanup(active_tests, id)
  /\ LET x == TimeoutExpired(signals[id])
     IN ret' = Call("start_test", id, x.val, id \in active_tests, x.proc, x.sigs)
  /\ process' = Drop(process, id, "None")
  /\ signals' = Drop(signals, id, <<>>)
  /\ UNCHANGED nextId

\* TestExecutionManager.abort_test(execution_id)
AbortTest(id, o) ==
  IF ~Tracked(id)
  THEN /\ ret' = Call("abort_test", id, NotFound, FALSE, "None", <<>>)
       /\ UNCHANGED <<active_tests, nextId, is_running, process, signals, task>>
  ELSE LET r == ExecutorAbort(is_running[id], process[id], signals[id], o)
       IN /\ active_tests' = AbortRemove(active_tests, id, r.val)
          /\ process' = [process EXCEPT ![id] = r.proc]
          /\ signals' = [signals EXCEPT ![id] = r.sigs]
          \* a cancelled start_test left only the registry holding the executor
          /\ task' = [task EXCEPT ![id] =
                        IF @ = "cancelled" /\ id \notin active_tests' THEN "done" ELSE @]
          /\ ret' = Call("abort_test", id, r.val, TRUE, r.proc, r.sigs)
          /\ UNCHANGED <<nextId, is_running>>

\* ------------------------------------------------------------- LoadRunner

\* the statuses the target answers with, and a transport failure
\* (httpx.RequestError: connect, timeout, protocol)
StatusCodes == {200, 500}
Outcomes == StatusCodes \cup {0}

\* the LoadTestConfig of the expanded run; interval is request_interval
\* (1 / max_rps) in ticks, 0 when it is shorter than a tick
RunConfigs ==
  [method : {"GET", "HEAD"},
   concurrent_users : 1..NumUsers,
   duration : {Duration},
   interval : {0, 1}]

\* the clock stops here: every virtual user's end_time has passed
MaxTime == StartClock + Duration + 2

\* TestMetrics(): the dataclass defaults and __post_init__ (a status code the
\* dictionary does not hold counts 0; start_time/end_time 0 is None)
NewMetrics ==
  [total_requests |-> 0, successful_requests |-> 0, failed_requests |-> 0,
   response_times |-> <<>>, status_codes |-> [c \in StatusCodes |-> 0],
   errors |-> <<>>, start_time |-> 0, end_time |-> 0]

NoReport == [kind |-> "none"]

\* make_request, lines 99-122: the verbs the if/elif chain dispatches
Dispatched(method) == method \in {"GET", "POST", "PUT", "DELETE", "PATCH"}

\* mutant: every response counts as successful, whatever its status
RecordResponseAllSucceed(m, code, rt) ==
  [m EXCEPT !.total_requests = @ + 1,
            !.response_times = Append(@, rt),
            !.status_codes = [@ EXCEPT ![code] = @ + 1],
            !.successful_requests = @ + 1]

\* make_request, lines 124-142: a response with status code `code` is recorded
RecordResponse(m, code, rt) ==
  [m EXCEPT !.total_requests = @ + 1,
            !.response_times = Append(@, rt),
            !.status_codes = [@ EXCEPT ![code] = @ + 1],
            !.successful_requests = IF 200 <= code /\ code < 300 THEN @ + 1 ELSE @,
            !.failed_requests = IF 200 <= code /\ code < 300 THEN @ ELSE @ + 1,
            !.errors = IF 200 <= code /\ code < 300 THEN @ ELSE Append(@, "HTTP")]

\* mutant: the except branch counts the request but not the failure
RecordFailureUncounted(m, rt) ==
  [m EXCEPT !.total_requests = @ + 1,
            !.response_times = Append(@, rt),
            !.errors = Append(@, "Request error")]

\* make_request, lines 151-156: httpx.RequestError
RecordFailure(m, rt) ==
  [m EXCEPT !.total_requests = @ + 1,
            !.failed_requests = @ + 1,
            !.response_times = Append(@, rt),
            !.errors = Append(@, "Request error")]

Record(m, out, rt) == IF out = 0 THEN RecordFailure(m, rt) ELSE RecordResponse(m, out, rt)

\* generate_report: the sections the claims read
GenerateReport(m) ==
  IF m.response_times = <<>>
  THEN [kind |-> "error", error |-> "No metrics collected"]
  ELSE [kind |-> "report",
        total_requests |-> m.total_requests,
        successful_requests |-> m.successful_requests,
        failed_requests |-> m.failed_requests,
        status_codes |-> m.status_codes,
        errors_count |-> Len(m.errors)]

\* a run_user_simulation task: created by run_test, not yet run
NewUser == [pc |-> "created", end_time |-> 0, start_time |-> 0, wake |-> 0, sent |-> 0]

\* make_request, lines 97-122: the request is sent, or the method is unsupported
\* and ValueError ends the task (gather(return_exceptions=True) keeps it)
Dispatch(v) ==
  IF Dispatched(rcfg.method)
  THEN [v EXCEPT !.pc = "request", !.sent = now]
  ELSE [v EXCEPT !.pc = "raised"]

\* make_request, lines 89-95, entered when last_request_time is `last`
EnterRequest(v, last) ==
  LET since == now - last
  IN IF since < rcfg.interval
     THEN [v EXCEPT !.pc = "sleep", !.start_time = now,
                    !.wake = now + (rcfg.interval - since)]
     ELSE Dispatch([v EXCEPT !.start_time = now])

\* mutant: the loop tests the flag only, not the clock
LoopTopNoDeadline(v, last) ==
  IF running
  THEN EnterRequest(v, last)
  ELSE [v EXCEPT !.pc = "done"]

\* run_user_simulation, line 170: `while self.running and time.time() < end_time`
LoopTop(v, last) ==
  IF running /\ now < v.end_time
  THEN EnterRequest(v, last)
  ELSE [v EXCEPT !.pc = "done"]

\* mutant: a transport failure is re-raised and ends the virtual user's task
AfterOutcomeRaises(v, out, last) ==
  IF out = 0 THEN [v EXCEPT !.pc = "raised"] ELSE LoopTop(v, last)

\* make_request returns its dictionary for a response and for a transport
\* failure alike (lines 144-149, 158-162); run_user_simulation loops
AfterOutcome(v, out, last) == LoopTop(v, last)

\* mutant: one task more than concurrent_users
UserTasksOneMore(n) == [u \in 1..(n + 1) |-> NewUser]

\* run_test, lines 187-190: one run_user_simulation task per user
UserTasks(n) == [u \in 1..n |-> NewUser]

Users == DOMAIN vu

\* the task starts: line 168, then the loop
VUStart(u) ==
  /\ vu[u].pc = "created"
  /\ vu' = [vu EXCEPT ![u] =
              LoopTop([@ EXCEPT !.end_time = now + rcfg.duration], last_request_time)]
  /\ UNCHANGED <<rid, rcfg, running, metrics, last_request_time, now, report>>
  /\ UNCHANGED <<regVars, k6Vars, pureVars>>

\* asyncio.sleep of the rate limiter is over: the request is sent
VUWake(u) ==
  /\ vu[u].pc = "sleep"
  /\ now >= vu[u].wake
  /\ vu' = [vu EXCEPT ![u] = Dispatch(@)]
  /\ UNCHANGED <<rid, rcfg, running, metrics, last_request_time, now, report>>
  /\ UNCHANGED <<regVars, k6Vars, pureVars>>

\* the awaited request ends with a response or a transport failure: the
\* outcome is recorded and the loop goes on, up to the task's next await
VUResponse(u, out) ==
  /\ vu[u].pc = "request"
  /\ now > vu[u].sent
  /\ LET last == IF out = 0 THEN last_request_time ELSE now      \* line 142
     IN /\ metrics' = Record(metrics, out, now - vu[u].start_time)
        /\ last_request_time' = last
        /\ vu' = [vu EXCEPT ![u] = AfterOutcome(@, out, last)]
  /\ UNCHANGED <<rid, rcfg, running, now, report>>
  /\ UNCHANGED <<regVars, k6Vars, pureVars>>

\* time passes
Tick ==
  /\ rid # 0
  /\ now < MaxTime
  /\ now' = now + 1
  /\ UNCHANGED <<rid, rcfg, running, metrics, last_request_time, vu, report>>
  /\ UNCHANGED <<regVars, k6Vars, pureVars>>

\* time passes once every task that is ready has run: the loop runs the
\* tasks created and the sleeps that are over before it waits again
TickWhenIdle ==
  /\ \A u \in Users : vu[u].pc # "created" /\ ~(vu[u].pc = "sleep" /\ now >= vu[u].wake)
  /\ Tick

\* start_test of an internal run: _run_python_test builds the LoadTestConfig,
\* run_test sets running and start_time, creates the tasks and awaits gather
StartTestTraced(rc) ==
  /\ nextId = 1
  /\ StartTestCore([runner_type |-> "python", concurrent_users |-> rc.concurrent_users,
                    load_profile_type |-> "steady_state", has_url |-> TRUE],
                   [script_exists |-> TRUE, popen_ok |-> TRUE])
  /\ rid' = nextId
  /\ rcfg' = rc
  /\ running' = TRUE
  /\ metrics' = [NewMetrics EXCEPT !.start_time = now]
  /\ vu' = UserTasks(rc.concurrent_users)
  /\ UNCHANGED <<last_request_time, now, report>>
  /\ UNCHANGED <<k6Vars, pureVars>>

\* gather returned: run_test's finally, generate_report, and the return of
\* _run_python_test, execute_test and start_test
PyReturnTraced(id) ==
  /\ id = rid
  /\ \A u \in Users : vu[u].pc \in {"done", "raised"}
  /\ PyReturnCore(id)
  /\ running' = FALSE
  /\ metrics' = [metrics EXCEPT !.end_time = now]
  /\ report' = GenerateReport(metrics')
  /\ UNCHANGED <<rid, rcfg, last_request_time, vu, now>>
  /\ UNCHANGED <<k6Vars, pureVars>>

\* the start_test task is cancelled: gather cancels the tasks still running,
\* run_test's finally runs, the CancelledError propagates
CancelTraced(id) ==
  /\ id = rid
  /\ CancelCore(id)
  /\ running' = FALSE
  /\ metrics' = [metrics EXCEPT !.end_time = now]
  /\ vu' = [u \in Users |->
              IF vu[u].pc \in {"done", "raised"} THEN vu[u]
              ELSE [vu[u] EXCEPT !.pc = "cancelled"]]
  /\ UNCHANGED <<rid, rcfg, last_request_time, now, report>>
  /\ UNCHANGED <<k6Vars, pureVars>>

\* abort_test reaches no LoadRunner: the executor holds no reference to it
AbortTraced(id) ==
  /\ \E o \in AbortOutcomesFor(id) : AbortTest(id, o)
  /\ UNCHANGED <<runVars, k6Vars, pureVars>>

\* ------------------------------------------------- external backend artifacts

\* a file of the working directory: by is the execution whose process wrote
\* it (0: the file does not exist), ok whether it parses
NoFile == [by |-> 0, ok |-> FALSE]

\* what a k6 process did to an artifact by the time it is gone
Writes == [summary : {"none", "valid", "malformed"},
           results : {"none", "valid", "malformed"}]

NoWrites == [summary |-> "none", results |-> "none"]

\* "--out json=results.json", "--summary-export=summary.json": fixed names
WriteFile(f, id, w) == IF w = "none" THEN f ELSE [by |-> id, ok |-> (w = "valid")]

Written(fs, id, w) ==
  [summary |-> WriteFile(fs.summary, id, w.summary),
   results |-> WriteFile(fs.results, id, w.results)]

\* one try block of _parse_k6_results: the key is set when the file exists
\* and parses
ParseFile(f) ==
  IF f.by # 0 /\ f.ok THEN [present |-> TRUE, by |-> f.by] ELSE [present |-> FALSE, by |-> 0]

\* mutant: one try block around both artifacts, the result built at its end
ParseK6ResultsOneTry(fs) ==
  IF (fs.summary.by # 0 /\ ~fs.summary.ok) \/ (fs.results.by # 0 /\ ~fs.results.ok)
  THEN [summary |-> ParseFile(NoFile), detailed_metrics |-> ParseFile(NoFile)]
  ELSE [summary |-> ParseFile(fs.summary), detailed_metrics |-> ParseFile(fs.results)]

\* _parse_k6_results
ParseK6Results(fs) ==
  [summary |-> ParseFile(fs.summary), detailed_metrics |-> ParseFile(fs.results)]

NoExtra == [kind |-> "none"]

\* mutant: artifacts are parsed whatever the exit code
K6ExtraAlwaysParses(proc, id, fs) ==
  [kind |-> "results", by |-> id, results |-> ParseK6Results(fs)]

\* _run_k6_test, lines 96-113: "results" of a zero exit, "stderr" of another
K6Extra(proc, id, fs) ==
  IF proc = "exit_zero"
  THEN [kind |-> "results", by |-> id, results |-> ParseK6Results(fs)]
  ELSE [kind |-> "stderr", by |-> id]

\* the configurations execute_test sends to the external backend
K6Configs == {c \in Configs : ~UsePython(c)}

StartTestK6(c, h) ==
  /\ nextId <= K6Runs
  /\ StartTestCore(c, h)
  /\ UNCHANGED <<runVars, k6Vars, pureVars>>

ProcExitTraced(id, rc0, w) ==
  /\ ProcExit(id, rc0)
  /\ files' = Written(files, id, w)
  /\ UNCHANGED <<runVars, extra, pureVars>>

K6ReturnTraced(id) ==
  /\ K6Return(id)
  /\ extra' = K6Extra(process[id], id, files)
  /\ UNCHANGED <<runVars, files, pureVars>>

K6TimeoutTraced(id, w) ==
  /\ K6Timeout(id)
  /\ files' = Written(files, id, w)
  /\ extra' = NoExtra
  /\ UNCHANGED <<runVars, pureVars>>

\* abort_test from another thread, while the loop thread is in communicate()
AbortTestK6(id, o, w) ==
  /\ AbortTest(id, o)
  /\ files' = IF id \in Ids /\ process[id] = "alive" /\ process'[id] # "alive"
              THEN Written(files, id, w) ELSE files
  /\ w # NoWrites => (id \in Ids /\ process[id] = "alive" /\ process'[id] # "alive")
  /\ UNCHANGED <<runVars, extra, pureVars>>

\* ------------------------------------------- report statistics, LoadTestConfig

RECURSIVE SumSeq(_)
SumSeq(s) == IF s = <<>> THEN 0 ELSE Head(s) + SumSeq(Tail(s))

RECURSIVE InsertSorted(_, _)
InsertSorted(x, s) ==
  IF s = <<>> THEN <<x>>
  ELSE IF x <= Head(s) THEN <<x>> \o s
  ELSE <<Head(s)>> \o InsertSorted(x, Tail(s))

\* sorted(response_times)
RECURSIVE Sorted(_)
Sorted(s) == IF s = <<>> THEN <<>> ELSE InsertSorted(Head(s), Sorted(Tail(s)))

\* min(response_times), max(response_times)
MinOf(s) == CHOOSE x \in {s[i] : i \in DOMAIN s} : \A i \in DOMAIN s : x <= s[i]
MaxOf(s) == CHOOSE x \in {s[i] : i \in DOMAIN s} : \A i \in DOMAIN s : s[i] <= x

\* round(statistics.mean(response_times), 2), latencies counted in 0.01 ms:
\* the quotient rounded to the nearest unit
RoundedMean(s) == (2 * SumSeq(s) + Len(s)) \div (2 * Len(s))

\* mutant: the rank rounded up
PercentileIndexCeil(n, pct) == (n * pct + 99) \div 100

\* int(len(sorted_times) * 0.5), * 0.95, * 0.99: the 0-based index (the float
\* product truncates to floor(n * pct / 100) for every n up to 200000)
PercentileIndex(n, pct) == (n * pct) \div 100

NoStats == [kind |-> "none"]

\* generate_report, lines 209-222 and 253-260; sorted_times[i] with i out of
\* range raises IndexError
ResponseTimeStats(times) ==
  IF times = <<>>
  THEN [kind |-> "error"]
  ELSE LET sorted_times == Sorted(times)
           n == Len(sorted_times)
           i50 == PercentileIndex(n, 50)
           i95 == PercentileIndex(n, 95)
           i99 == PercentileIndex(n, 99)
       IN IF i50 >= n \/ i95 >= n \/ i99 >= n
          THEN [kind |-> "IndexError"]
          ELSE [kind |-> "response_times",
                average_ms |-> RoundedMean(times),
                minimum_ms |-> MinOf(times),
                maximum_ms |-> MaxOf(times),
                p50_ms |-> sorted_times[i50 + 1],
                p95_ms |-> sorted_times[i95 + 1],
                p99_ms |-> sorted_times[i99 + 1]]

\* the latency sequences reported on
RECURSIVE SeqsUpTo(_)
SeqsUpTo(n) ==
  IF n = 0 THEN {<<>>}
  ELSE LET shorter == SeqsUpTo(n - 1)
       IN shorter \cup {Append(q, x) : q \in {r \in shorter : Len(r) = n - 1}, x \in 1..MaxLatency}

Samples == SeqsUpTo(MaxLen)

\* a dictionary of headers: a set of <<name, value>> with one value per name
HeaderMaps == {{}, {<<"Accept", "json">>}, {<<"Authorization", "Basic">>}}

\* headers[name] = value
SetHeader(h, name, value) == {kv \in h : kv[1] # name} \cup {<<name, value>>}

\* test_config as a caller builds it: whether it has the key "headers", the
\* dictionary under it, and auth_token ("": none)
TestConfigs ==
  {tc \in [has_headers : BOOLEAN, headers : HeaderMaps, auth_token : {"", "secret"}] :
     ~tc.has_headers => tc.headers = {}}

NoConfig == [kind |-> "none"]

\* LoadTestConfig.__post_init__ on the dictionary held in self.headers
PostInit(headers, auth_token) ==
  IF auth_token # "" THEN SetHeader(headers, "Authorization", "Bearer") ELSE headers

\* _run_python_test, lines 136-146: headers=test_config.get("headers", {}) hands
\* the caller's own dictionary to LoadTestConfig, or a fresh one when the key
\* is missing
BuiltConfig(tc) ==
  [kind |-> "built",
   headers |-> PostInit(IF tc.has_headers THEN tc.headers ELSE {}, tc.auth_token),
   auth_token |-> tc.auth_token]

\* the caller's dictionary once LoadTestConfig was built from it: the
\* dictionary under "headers" is the one __post_init__ wrote to
CallerAfter(tc) ==
  IF tc.has_headers
  THEN [tc EXCEPT !.headers = PostInit(tc.headers, tc.auth_token)]
  ELSE tc

\* generate_report() on the sample
ReportOnSample ==
  /\ stats = NoStats
  /\ stats' = ResponseTimeStats(sample)
  /\ UNCHANGED <<sample, passed, test_config, python_config>>
  /\ UNCHANGED <<regVars, runVars, k6Vars>>

\* _run_python_test builds the LoadTestConfig
BuildPythonConfig ==
  /\ python_config = NoConfig
  /\ python_config' = BuiltConfig(test_config)
  /\ test_config' = CallerAfter(test_config)
  /\ UNCHANGED <<sample, stats, passed>>
  /\ UNCHANGED <<regVars, runVars, k6Vars>>

\* ----------------------------------------------------------- Spec (registry)

RunnerIdle ==
  /\ rid = 0
  /\ rcfg = [method |-> "GET", concurrent_users |-> 0, duration |-> 0, interval |-> 0]
  /\ running = FALSE
  /\ metrics = NewMetrics
  /\ last_request_time = 0
  /\ vu = <<>>
  /\ now = StartClock
  /\ report = NoReport

K6Idle ==
  /\ files = [summary |-> NoFile, results |-> NoFile]
  /\ extra = NoExtra

InitRegistry ==
  /\ active_tests = {}
  /\ nextId = 1
  /\ is_running = [i \in Ids |-> FALSE]
  /\ process = [i \in Ids |-> "None"]
  /\ signals = [i \in Ids |-> <<>>]
  /\ task = [i \in Ids |-> "none"]
  /\ ret = Call("none", 0, NoCall, FALSE, "None", <<>>)

PureIdle ==
  /\ sample = <<>>
  /\ stats = NoStats
  /\ passed = [has_headers |-> FALSE, headers |-> {}, auth_token |-> ""]
  /\ test_config = passed
  /\ python_config = NoConfig

Init == InitRegistry /\ RunnerIdle /\ K6Idle /\ PureIdle

StartTest == \E c \in Configs : \E h \in HostsFor(c) : StartTestCore(c, h) /\ UNCHANGED <<runVars, k6Vars, pureVars>>
PyReturn == \E id \in Ids : PyReturnCore(id) /\ UNCHANGED <<runVars, k6Vars, pureVars>>
Cancel == \E id \in Ids : CancelCore(id) /\ UNCHANGED <<runVars, k6Vars, pureVars>>
ProcessExits == \E id \in Ids, rc0 \in BOOLEAN : ProcExit(id, rc0) /\ UNCHANGED <<runVars, k6Vars, pureVars>>
K6Returns == \E id \in Ids : K6Return(id) /\ UNCHANGED <<runVars, k6Vars, pureVars>>
K6TimesOut == \E id \in Ids : K6Timeout(id) /\ UNCHANGED <<runVars, k6Vars, pureVars>>
Abort == \E id \in AbortIds : \E o \in AbortOutcomesFor(id) : AbortTest(id, o) /\ UNCHANGED <<runVars, k6Vars, pureVars>>

Next ==
  \/ StartTest
  \/ PyReturn
  \/ Cancel
  \/ ProcessExits
  \/ K6Returns
  \/ K6TimesOut
  \/ Abort

Spec == Init /\ [][Next]_vars

\* ------------------------------------------------- SpecRunner (one expanded run)

StartRun == \E rc \in RunConfigs : StartTestTraced(rc)
UserStarts == \E u \in Users : VUStart(u)
UserWakes == \E u \in Users : VUWake(u)
UserGetsOutcome == \E u \in Users, out \in Outcomes : VUResponse(u, out)
RunReturns == \E id \in Ids : PyReturnTraced(id)
RunCancelled == \E id \in Ids : CancelTraced(id)
RunAborted == \E id \in AbortIds : AbortTraced(id)

NextRunner ==
  \/ StartRun
  \/ UserStarts
  \/ UserWakes
  \/ UserGetsOutcome
  \/ Tick
  \/ RunReturns
  \/ RunCancelled
  \/ RunAborted

SpecRunner == Init /\ [][NextRunner]_vars

\* -------------------------------------- SpecRunnerLive (the loop's scheduling)

NextRunnerLive ==
  \/ StartRun
  \/ UserStarts
  \/ UserWakes
  \/ UserGetsOutcome
  \/ TickWhenIdle
  \/ RunReturns
  \/ RunCancelled
  \/ RunAborted

\* the loop runs every ready task, the clock advances, and every request
\* attempt ends (httpx bounds it by the per-request timeout)
SpecRunnerLive ==
  /\ Init
  /\ [][NextRunnerLive]_vars
  /\ WF_vars(UserStarts)
  /\ WF_vars(UserWakes)
  /\ WF_vars(UserGetsOutcome)
  /\ WF_vars(TickWhenIdle)
  /\ WF_vars(RunReturns)

\* ------------------------------------------- SpecK6 (external backend, files)

StartK6 == \E c \in K6Configs : \E h \in Hosts : StartTestK6(c, h)
ProcessExitsK6 == \E id \in Ids, rc0 \in BOOLEAN, w \in Writes : ProcExitTraced(id, rc0, w)
ReturnsK6 == \E id \in Ids : K6ReturnTraced(id)
TimesOutK6 == \E id \in Ids, w \in Writes : K6TimeoutTraced(id, w)
AbortK6 ==
  \E id \in AbortIds : \E o \in AbortOutcomesFor(id) : \E w \in Writes : AbortTestK6(id, o, w)

NextK6 ==
  \/ StartK6
  \/ ProcessExitsK6
  \/ ReturnsK6
  \/ TimesOutK6
  \/ AbortK6

\* communicate(timeout=...) returns when the process exits and raises when the
\* timeout expires: the loop thread leaves it
SpecK6 ==
  /\ Init
  /\ [][NextK6]_vars
  /\ WF_vars(ReturnsK6)
  /\ WF_vars(TimesOutK6)

\* ------------------------------- SpecPure (generate_report, LoadTestConfig)

InitPure ==
  /\ InitRegistry /\ RunnerIdle /\ K6Idle
  /\ sample \in Samples
  /\ stats = NoStats
  /\ passed \in TestConfigs
  /\ test_config = passed
  /\ python_config = NoConfig

NextPure ==
  \/ ReportOnSample
  \/ BuildPythonConfig

SpecPure == InitPure /\ [][NextPure]_vars

\* =================================================================== claims

\* every id a caller can name: those of Ids and one never handed out
AnyId == 1..(MaxStarts + 1)

\* the registry and every executor are as they were
RegistryUnchanged == UNCHANGED <<active_tests, nextId, is_running, process, signals, task>>

\* C2: the number of entries of active_tests never exceeds max_concurrent_tests,
\* under every interleaving of start_test and abort_test calls.
C2_CapNeverExceeded == Cardinality(active_tests) <= max_concurrent_tests

\* five start_test calls are suspended in their execute_test at once
C2_Witness ==
  /\ Cardinality(active_tests) = max_concurrent_tests
  /\ \A i \in active_tests : task[i] = "py_await"

\* C3: a start_test called while active_tests holds max_concurrent_tests entries
\* returns the capacity rejection, creates no executor, launches no backend and
\* leaves active_tests as it was.
C3_RejectAtCapacity ==
  [][\A c \in Configs : \A h \in Hosts :
       (Cardinality(active_tests) >= max_concurrent_tests /\ StartTestCore(c, h))
       => (ret'.op = "start_test" /\ ret'.val = CapacityRejected /\ RegistryUnchanged)]_vars

\* the sixth start_test was refused while five were tracked
C3_Witness ==
  /\ ret.op = "start_test" /\ ret.val = CapacityRejected
  /\ Cardinality(active_tests) = max_concurrent_tests
  /\ nextId = max_concurrent_tests + 1

\* C4 (as claimed): once start_test has stopped running for an execution, by
\* return or by cancellation, its handle is no longer in active_tests.
C4_SlotReleasedOnEveryExit ==
  \A i \in Ids : task[i] \in {"done", "cancelled"} => i \notin active_tests

\* C5 (as claimed): an id is a key of active_tests exactly while its
\* execute_test is running.
C5_HandleIffRunning ==
  \A i \in Ids : (i \in active_tests) <=> is_running[i]

\* C6: abort_test(id) on a tracked, running execution leaves id out of
\* active_tests and out of get_active_tests(), whatever the executor answered.
C6_AbortRemovesHandle ==
  [][\A id \in Ids : \A o \in AbortOutcomes :
       (id \in active_tests /\ is_running[id] /\ AbortTest(id, o))
       => (id \notin active_tests' /\ id \notin DOMAIN get_active_tests')]_vars

\* a running external execution was aborted, its abort failed, and its handle is gone
C6_Witness ==
  /\ ret.op = "abort_test" /\ ret.val = AbortFailed
  /\ ret.id \in Ids /\ ret.id \notin active_tests
  /\ is_running[ret.id]

\* C7: abort_test(id) with id not a key of active_tests returns "not found" and
\* leaves active_tests and every executor unchanged.
C7_AbortUnknownIsNoop ==
  [][\A id \in AnyId : \A o \in AbortOutcomes :
       (id \notin active_tests /\ AbortTest(id, o))
       => (ret'.val = NotFound /\ RegistryUnchanged)]_vars

\* an id never handed out was aborted while executions were tracked
C7_Witness ==
  /\ ret.op = "abort_test" /\ ret.val = NotFound /\ ret.id = nextId
  /\ active_tests # {}

\* C9: abort_test on an id whose handle was already removed (by an earlier
\* abort or by completion) returns "not found" and changes nothing; and the
\* cleanup of a start_test whose handle an abort removed returns the
\* execution's own result and removes no other entry.
C9_AbortIdempotent ==
  [][/\ \A id \in Ids : \A o \in AbortOutcomes :
          (id < nextId /\ id \notin active_tests /\ AbortTest(id, o))
          => (ret'.val = NotFound /\ ~ret'.found /\ RegistryUnchanged)
     /\ \A id \in Ids :
          (id \notin active_tests /\ (PyReturnCore(id) \/ K6Return(id) \/ K6Timeout(id)))
          => /\ active_tests' = active_tests
             /\ ret'.val \in {PythonSuccess, K6Success, K6Failed, K6TimedOut}
             /\ ~ret'.found]_vars

\* an execution was aborted twice while its start_test was still awaiting it
C9_Witness ==
  /\ ret.op = "abort_test" /\ ret.val = NotFound
  /\ ret.id \in Ids /\ task[ret.id] = "py_await" /\ is_running[ret.id]
  /\ active_tests # {}

C1_CountersAddUp ==
  /\ metrics.total_requests = metrics.successful_requests + metrics.failed_requests
  /\ report.kind = "report"
       => report.total_requests = report.successful_requests + report.failed_requests

\* a completed run that recorded a 2xx response, a non-2xx response and a
\* transport failure
C1_Witness ==
  /\ report.kind = "report"
  /\ report.successful_requests >= 1
  /\ report.status_codes[500] >= 1
  /\ report.failed_requests > report.status_codes[500]

\* an execution on the internal backend that abort_test was called on while
\* its start_test awaits the run
AbortedRun(id) == id # 0 /\ task[id] = "py_await" /\ id \notin active_tests

TimedOut(id) == task[id] = "k6_wait" /\ process[id] = "alive" /\ task'[id] = "done"

\* C11: an external process that has not exited when communicate()'s timeout
\* expires ends the execution in the "timed out" failure, returned after the
\* process was killed and waited for; and no execution stays in communicate().
C11_TimeoutIsTerminal ==
  /\ [][\A id \in Ids :
          TimedOut(id)
          => /\ ret'.op = "start_test" /\ ret'.id = id
             /\ ret'.val = K6TimedOut /\ ~ret'.val.success
             /\ ret'.proc \in {"exit_zero", "exit_nonzero"}
             /\ id \notin active_tests' /\ ~is_running'[id]]_vars
  /\ \A id \in Ids : (task[id] = "k6_wait") ~> (task[id] = "done")

\* an execution returned the timeout failure and its process is gone
C11_Witness ==
  /\ ret.op = "start_test" /\ ret.val = K6TimedOut
  /\ ret.proc = "exit_nonzero"
  /\ task[ret.id] = "done"

\* C12 (as claimed): the signals a timed-out process received hold no KILL
\* without an earlier TERM.
C12_KillOnlyAfterTerminate ==
  (ret.op = "start_test" /\ ret.val = K6TimedOut)
  => \A i \in 1..Len(ret.sigs) :
       ret.sigs[i] = "KILL" => \E j \in 1..(i - 1) : ret.sigs[j] = "TERM"

\* communicate() returns for the external execution id in this step
Exited(id) ==
  task[id] = "k6_wait" /\ process[id] \in {"exit_zero", "exit_nonzero"} /\ task'[id] = "done"

\* C13: when the external process exits before the timeout, exit code 0 gives
\* the success result of runner "k6" with the parsed results; another exit code
\* gives a failure with the process's stderr and nothing parsed.
C13_ExitCodeDecides ==
  [][\A id \in Ids :
       Exited(id)
       => /\ ret'.op = "start_test" /\ ret'.id = id
          /\ IF process[id] = "exit_zero"
             THEN /\ ret'.val = K6Success /\ ret'.val.success /\ ret'.val.runner = "k6"
                  /\ extra'.kind = "results" /\ extra'.by = id
             ELSE /\ ret'.val = K6Failed /\ ~ret'.val.success
                  /\ extra' = [kind |-> "stderr", by |-> id]]_vars

\* a process exited non-zero leaving two valid artifacts, and none was parsed
C13_Witness ==
  /\ ret.op = "start_test" /\ ret.val = K6Failed
  /\ extra = [kind |-> "stderr", by |-> ret.id]
  /\ files.summary = [by |-> ret.id, ok |-> TRUE]
  /\ files.results = [by |-> ret.id, ok |-> TRUE]

\* the file exists and parses
Valid(f) == f.by # 0 /\ f.ok

\* C14: after a zero exit the result is success, holds "summary" exactly when
\* summary.json exists and parses and "detailed_metrics" exactly when
\* results.json does, each whatever the state of the other file.
C14_ArtifactsParsedIndependently ==
  [][\A id \in Ids :
       (Exited(id) /\ process[id] = "exit_zero")
       => /\ ret'.val.success
          /\ extra'.kind = "results"
          /\ extra'.results.summary.present <=> Valid(files.summary)
          /\ extra'.results.detailed_metrics.present <=> Valid(files.results)]_vars

\* a success whose results hold the summary though results.json is malformed
C14_Witness ==
  /\ ret.op = "start_test" /\ ret.val = K6Success
  /\ extra.kind = "results"
  /\ extra.results.summary.present /\ ~extra.results.detailed_metrics.present
  /\ files.results.by = ret.id /\ ~files.results.ok

\* C15 (as claimed): an admitted execution runs on the internal generator when
\* runner_type is "python" or concurrent_users is a few hundred at most, and on
\* the external process otherwise - 900 users, not asking for "python", go to
\* the external process.
C15_BackendByThreshold ==
  [][\A c \in Configs : \A h \in Hosts :
       (Admit(Cardinality(active_tests)) /\ c.has_url /\ StartTestCore(c, h))
       => IF c.runner_type = "python" \/ c.concurrent_users < 900
          THEN task'[nextId] = "py_await"
          ELSE task'[nextId] # "py_await"]_vars

\* C16: on the external path a profile kind without a script mapping, or a
\* mapped script that does not exist, ends the execution in a failure result:
\* no process is launched, no other script or backend is tried, nothing is raised.
C16_MissingScriptIsFatal ==
  [][\A c \in Configs : \A h \in Hosts :
       (/\ Admit(Cardinality(active_tests))
        /\ c.runner_type # "python" /\ c.concurrent_users >= PythonThreshold
        /\ (c.load_profile_type = "unknown" \/ ~h.script_exists)
        /\ StartTestCore(c, h))
       => /\ ret'.op = "start_test" /\ ret'.id = nextId
          /\ ret'.val = ScriptNotFound /\ ~ret'.val.success
          /\ process'[nextId] = "None" /\ ret'.proc = "None"
          /\ task'[nextId] = "done"
          /\ nextId \notin active_tests']_vars

\* a start_test on the external path ended on the missing script
C16_Witness ==
  /\ ret.op = "start_test" /\ ret.val = ScriptNotFound
  /\ task[ret.id] = "done" /\ process[ret.id] = "None"
  /\ ret.id \notin active_tests

\* C17 (as claimed): an internal execution whose method the generator does not
\* dispatch returns a failure result.
C17_UnsupportedMethodFails ==
  (rid # 0 /\ ~Dispatched(rcfg.method) /\ task[rid] = "done"
     /\ ret.op = "start_test" /\ ret.id = rid)
  => ~ret.val.success

\* C18: a non-2xx response or a transport failure is counted as failed and ends
\* nothing: the flag running stands, no other virtual user is touched, and the
\* virtual user it happened to goes on to its next iteration unless the run's
\* duration is over.
C18_RequestFailureTolerated ==
  [][\A u \in Users : \A out \in {0, 500} :
       VUResponse(u, out)
       => /\ metrics'.failed_requests = metrics.failed_requests + 1
          /\ running' = running
          /\ \A w \in Users \ {u} : vu'[w] = vu[w]
          /\ IF running /\ now < vu[u].end_time
             THEN vu'[u].pc \in {"sleep", "request"}
             ELSE vu'[u].pc = "done"]_vars

\* a run with a transport failure and a non-2xx response went on and returned
\* its report
C18_Witness ==
  /\ report.kind = "report"
  /\ report.status_codes[500] >= 1
  /\ report.failed_requests > report.status_codes[500]
  /\ report.total_requests >= 3
  /\ \A u \in Users : vu[u].pc = "done"

\* requests sent so far: those recorded and those in flight
Issued == metrics.total_requests + Cardinality({u \in Users : vu[u].pc = "request"})

\* C19 (as claimed): with request_interval = 1 / max_rps, the requests issued
\* stay within 110% of elapsed / request_interval (and the first one).
C19_AggregateRateCapped ==
  (rid # 0 /\ rcfg.interval >= 1)
  => 10 * Issued * rcfg.interval <= 11 * (now - metrics.start_time) + 10 * rcfg.interval

\* C20 (as claimed): the sections of an external execution's results come from
\* files its own process wrote.
C20_ResultsFromOwnArtifacts ==
  extra.kind = "results"
  => /\ extra.results.summary.present => extra.results.summary.by = extra.by
     /\ extra.results.detailed_metrics.present => extra.results.detailed_metrics.by = extra.by

\* C21 (as claimed): building and running the internal backend's configuration
\* leaves the caller's test_config, headers included, as it was passed in.
C21_ConfigUntouched ==
  python_config.kind = "built" => test_config = passed

\* how many latencies of the sample are below v, and how many are v at most
Below(v) == Cardinality({i \in DOMAIN sample : sample[i] < v})
AtMost(v) == Cardinality({i \in DOMAIN sample : sample[i] <= v})

\* v is the element at 0-based index k of the sample once sorted
IsRank(v, k) == Below(v) <= k /\ k < AtMost(v)

\* C23: for every non-empty latency sequence of length n the report's
\* percentiles are the sorted sequence's elements at floor(0.50 n),
\* floor(0.95 n) and floor(0.99 n), all of them valid indices, with
\* p50 <= p95 <= p99 <= maximum and minimum <= average <= maximum.
C23_PercentilesOrdered ==
  (stats # NoStats /\ sample # <<>>)
  => LET n == Len(sample)
     IN /\ stats.kind = "response_times"
        /\ (50 * n) \div 100 < n /\ (95 * n) \div 100 < n /\ (99 * n) \div 100 < n
        /\ IsRank(stats.p50_ms, (50 * n) \div 100)
        /\ IsRank(stats.p95_ms, (95 * n) \div 100)
        /\ IsRank(stats.p99_ms, (99 * n) \div 100)
        /\ stats.p50_ms <= stats.p95_ms /\ stats.p95_ms <= stats.p99_ms
        /\ stats.p99_ms <= stats.maximum_ms
        /\ stats.minimum_ms <= stats.average_ms /\ stats.average_ms <= stats.maximum_ms

\* a report on the longest sample, unsorted, with the median below the maximum
C23_Witness ==
  /\ stats.kind = "response_times"
  /\ Len(sample) = MaxLen
  /\ sample[1] > sample[MaxLen]
  /\ stats.minimum_ms < stats.p50_ms /\ stats.p50_ms < stats.p99_ms

\* execute_test of the execution has not returned: its backend is executing
Executing(id) == task[id] \in {"py_await", "k6_wait"}

\* C22 (as claimed): an execution that stopped or was aborted is terminal: it
\* never runs again, its handle is out of the registry, and a handle leaves
\* the registry only when its execution is terminal.
C22_LifecycleFollowed ==
  [][\A id \in Ids :
       /\ task[id] \in {"done", "cancelled"}
            => (task'[id] \in {"done", "cancelled"} /\ ~is_running'[id]
                /\ process'[id] = process[id])
       /\ task'[id] \in {"done", "cancelled"} => id \notin active_tests'
       /\ (id \in active_tests /\ id \notin active_tests')
            => task'[id] \in {"done", "cancelled"}]_vars

\* the signals this abort_test call added to those the process had received
SentByAbort(id) == SubSeq(ret'.sigs, Len(signals[id]) + 1, Len(ret'.sigs))

\* C28: abort_test on an execution whose external process is alive sends
\* TERM, then KILL only when the process outlived the 10 s wait; and an abort
\* that acknowledges success leaves the process exited.
C28_AbortEscalates ==
  [][\A id \in Ids : \A o \in AbortOutcomes :
       (id \in active_tests /\ is_running[id] /\ process[id] # "None" /\ AbortTest(id, o))
       => /\ ret'.val.success => ret'.proc \in {"exit_zero", "exit_nonzero"}
          /\ process[id] = "alive"
               => /\ SentByAbort(id) \in {<<>>, <<"TERM">>, <<"TERM", "KILL">>}
                  /\ SentByAbort(id) = <<"TERM", "KILL">> <=> o = "ignores_term"
                  /\ SentByAbort(id) = <<"TERM">> <=> o \in {"exits_zero", "exits_nonzero"}
                  /\ SentByAbort(id) = <<>> <=> ~ret'.val.success]_vars

\* an abort had to kill a process that outlived the wait
C28_Witness ==
  /\ ret.op = "abort_test" /\ ret.val = AbortedForced
  /\ ret.sigs = <<"TERM", "KILL">>
  /\ ret.proc = "exit_nonzero"

\* C29 (as claimed): the executions whose backend is executing never outnumber
\* max_concurrent_tests.
C29_RunningWithinCap ==
  Cardinality({id \in Ids : Executing(id)}) <= max_concurrent_tests

\* the configured codes that are a success: 200 <= code < 300
SuccessCodes == {c \in StatusCodes : 200 <= c /\ c < 300}

\* the histogram's counts, summed
RECURSIVE SumCounts(_, _)
SumCounts(h, codes) ==
  IF codes = {} THEN 0
  ELSE LET c == CHOOSE x \in codes : TRUE IN h[c] + SumCounts(h, codes \ {c})

\* the transport failures recorded so far
TransportFailures(m) ==
  Cardinality({i \in DOMAIN m.errors : m.errors[i] = "Request error"})

\* C24: every outcome adds one to successful_requests exactly when it is a
\* response with a 2xx status, and one to the histogram, under its status,
\* exactly when it is a response; so the histogram sums to total_requests less
\* the transport failures, and a target that only answers 500 leaves
\* successful_requests at 0 and status_codes at {500: total_requests}.
C24_OutcomesClassified ==
  [][\A u \in Users : \A out \in Outcomes :
       VUResponse(u, out)
       => /\ metrics'.successful_requests =
               metrics.successful_requests + (IF out \in SuccessCodes THEN 1 ELSE 0)
          /\ \A c \in StatusCodes :
               metrics'.status_codes[c] = metrics.status_codes[c] + (IF out = c THEN 1 ELSE 0)
          /\ metrics'.successful_requests = SumCounts(metrics'.status_codes, SuccessCodes)
          /\ SumCounts(metrics'.status_codes, StatusCodes)
               = metrics'.total_requests - TransportFailures(metrics')
          /\ (TransportFailures(metrics') = 0 /\ metrics'.status_codes[200] = 0)
               => (metrics'.successful_requests = 0
                   /\ metrics'.status_codes[500] = metrics'.total_requests)]_vars

\* a completed run against a target that answered 500 every time
C24_Witness ==
  /\ report.kind = "report"
  /\ report.total_requests >= 2
  /\ report.successful_requests = 0
  /\ report.status_codes[500] = report.total_requests

\* C25: the requests in flight never outnumber concurrent_users, and a virtual
\* user that had a request in flight starts its next wait or request only in
\* the step that records that request's outcome.
C25_SequentialPerUser ==
  [][/\ Cardinality({u \in DOMAIN vu' : vu'[u].pc = "request"}) <= rcfg'.concurrent_users
     /\ \A u \in Users :
          (vu[u].pc = "request" /\ vu'[u] # vu[u] /\ vu'[u].pc \in {"sleep", "request"})
          => /\ metrics'.total_requests = metrics.total_requests + 1
             /\ Len(metrics'.response_times) = Len(metrics.response_times) + 1]_vars

\* every virtual user has its second request in flight
C25_Witness ==
  /\ Cardinality(Users) = NumUsers
  /\ \A u \in Users : vu[u].pc = "request"
  /\ metrics.total_requests = NumUsers

\* C26: a virtual user whose request ends once its duration has elapsed
\* leaves its loop, however many requests were made; and a run that started
\* ends with running false, end_time set and every virtual user's task over,
\* also when virtual users raise.
C26_RunTerminates ==
  /\ [][\A u \in Users :
          (vu[u].pc = "request" /\ vu'[u] # vu[u] /\ now >= vu[u].end_time)
          => vu'[u].pc \in {"done", "cancelled"}]_vars
  /\ (rid # 0) ~> (/\ ~running /\ metrics.end_time # 0
                   /\ \A u \in Users : vu[u].pc \in {"done", "raised", "cancelled"})

\* a run returned after its whole duration, with requests made
C26_Witness ==
  /\ ~running /\ report.kind = "report"
  /\ metrics.end_time >= metrics.start_time + Duration
  /\ report.total_requests >= 2
  /\ \A u \in Users : vu[u].pc = "done"

\* C27 (as claimed): an internal execution whose report is the "no data"
\* result is not returned as a success.
C27_NoDataIsNotSuccess ==
  (rid # 0 /\ report.kind = "error" /\ ret.op = "start_test" /\ ret.id = rid)
  => ~ret.val.success

\* validate_method: the methods configuration validation accepts
ValidatedMethods == {"GET", "POST", "PUT", "DELETE", "PATCH", "HEAD", "OPTIONS"}

\* C30 (as claimed): with a validated method no virtual user takes the
\* unsupported-method branch of make_request.
C30_ValidatedMethodDispatched ==
  (rid # 0 /\ rcfg.method \in ValidatedMethods)
  => \A u \in Users : vu[u].pc # "raised"

====
